---------------------------- MODULE Spec2Model ----------------------------
(***************************************************************************)
(* NutriChef-em-Casa: the request-handling policy of the backend           *)
(* (backend/controllers/recipeController.js, the recipes router,           *)
(* backend/server.js) and the state handling of the React frontend         *)
(* (src/FitRecipeApp.tsx), as state machines.                              *)
(*                                                                         *)
(* Each component has its own specification over the shared variables:     *)
(*   SpecController  generateRecipe and its call to the provider           *)
(*   SpecAuth        verifyToken                                           *)
(*   SpecAdmin       isAdmin                                               *)
(*   SpecLimiter     the generation route's rate limiter, two client IPs   *)
(*   SpecRouter      the router's POST /generate, all request shapes       *)
(*   SpecList        the router's GET /, all limit and offset strings      *)
(*   SpecApp         the frontend's recipe / history state                 *)
(*   SpecOverlap     the frontend's fetchRecipes calls, told apart         *)
(*   SpecQueue       the frontend's request queue (SecureRecipeAPI)        *)
(*   SpecFetch       the frontend's makeSecureRequest and its timeout      *)
(*   SpecDetail      the frontend's rating input (RecipeDetail)            *)
(*   SpecServer      server.js: middleware chain, routes, error handling   *)
(*   SpecDisclosure  the three places that answer with error detail        *)
(***************************************************************************)
EXTENDS Integers, Sequences, FiniteSets, TLC

VARIABLES
    nodeEnv,        \* process.env.NODE_ENV
    geminiKey,      \* process.env.GEMINI_API_KEY is set
    cPc,            \* generateRecipe: "idle", "awaiting" (the provider call), "done"
    cBody,          \* generateRecipe: req.body of the request being handled
    cRes,           \* generateRecipe: the response sent (status 0: none yet)
    cSent,          \* generateRecipe: number of responses sent for the request
    cCalls,         \* generateRecipe: calls of model.generateContent for the request
    cError,         \* generateRecipe: the error caught, or NoError
    jwtSecret,      \* process.env.JWT_SECRET is set
    aPc,            \* verifyToken: "idle", "done"
    aHeader,        \* verifyToken: req.headers.authorization (NoHeader: absent)
    aUser,          \* verifyToken: req.user (NoUser: not set)
    aRes,           \* verifyToken: the response sent (status 0: none)
    aNext,          \* verifyToken: calls of next()
    hits,           \* recipeGenerationLimiter: the store's count per client IP
    seen,           \* requests each IP has sent to POST /generate in this window
    rPc,            \* POST /generate: "idle", "done"
    rIp,            \* POST /generate: req.ip
    rCaller,        \* POST /generate: the identity the caller's token names
    rLimiter,       \* POST /generate: "skipped", "passed", "rejected" ("-": not run)
    rHandled,       \* POST /generate: the route handler ran
    rBody,          \* POST /generate: req.body
    rRes,           \* POST /generate: the response sent
    rRecipe,        \* POST /generate: the recipe object built (NoRecipe: none)
    lPc,            \* GET /: "idle", "done"
    lQuery,         \* GET /: req.query
    lRes,           \* GET /: the response sent, with its pagination block
    recipes,        \* FitRecipeApp: the recipes state
    recipeHistory,  \* FitRecipeApp: the recipeHistory state
    selectedRecipe, \* FitRecipeApp: the selectedRecipe state (NoSelection: null)
    loading,        \* FitRecipeApp: the loading state
    showHistory,    \* FitRecipeApp: the showHistory state
    calls,          \* FitRecipeApp: the API calls in flight, in the order issued
    appOp,          \* FitRecipeApp: the handler or continuation that ran last
    requestQueue,   \* SecureRecipeAPI: the requestQueue field
    isProcessing,   \* SecureRecipeAPI: the isProcessing field
    drains,         \* SecureRecipeAPI: the executeQueue invocations inside their loop
    enqueued,       \* the request functions passed to queueRequest, in call order
    started,        \* the enqueue ordinals of the requests invoked, in invocation order
    settled,        \* the requests that have settled, with their outcome, in order
    secureCalls,    \* SecureRecipeAPI: the makeSecureRequest calls made, each with its
                    \* position, its timer, its abort signal, its fetch and its outcome
    sPc,            \* server.js: "idle", "done"
    sReq,           \* server.js: the request being handled
    sRes,           \* server.js: the response sent (status 0: none)
    sSent,          \* server.js: number of responses sent for the request
    sVia,           \* server.js: the middleware or route that sent the response
    sHits,          \* server.js: the general limiter's count for the client IP
    gPc,            \* isAdmin: "idle", "done"
    gUser,          \* isAdmin: req.user
    gRes,           \* isAdmin: the response sent (status 0: none)
    gNext,          \* isAdmin: calls of next()
    dOpen,          \* RecipeDetail: the component is mounted
    dEntry,         \* RecipeDetail: the historyEntry prop (NoEntry: undefined)
    dRating,        \* RecipeDetail: the rating state
    dClicks,        \* RecipeDetail: star clicks since the component was mounted
    dSubmitted,     \* the rating last passed to rateRecipe (NoSubmission: none)
    fetchCount,     \* fetchRecipes calls issued so far
    fetchTickets,   \* for each call in flight, the ordinal of the fetchRecipes call
    fetchData       \* for each fetchRecipes call issued, its outcome and response

controllerVars == <<cPc, cBody, cRes, cSent, cCalls, cError>>
envVars == <<nodeEnv, geminiKey, jwtSecret>>
authVars == <<aPc, aHeader, aUser, aRes, aNext>>
limiterVars == <<hits, seen>>
routerVars == <<rPc, rIp, rCaller, rLimiter, rHandled, rBody, rRes, rRecipe>>
listVars == <<lPc, lQuery, lRes>>
raceVars == <<fetchCount, fetchTickets, fetchData>>
appVars ==
    <<recipes, recipeHistory, selectedRecipe, loading, showHistory, calls, appOp, raceVars>>
serverVars == <<sPc, sReq, sRes, sSent, sVia, sHits>>
adminVars == <<gPc, gUser, gRes, gNext>>
backendVars ==
    <<envVars, controllerVars, authVars, limiterVars, routerVars, listVars, serverVars,
      adminVars>>
queueVars == <<requestQueue, isProcessing, drains, enqueued, started, settled>>
fetchVars == <<secureCalls>>
detailVars == <<dOpen, dEntry, dRating, dClicks, dSubmitted>>
apiVars == <<queueVars, fetchVars, detailVars>>
clientVars == <<appVars, apiVars>>

---------------------------------------------------------------------------
(* Bounds of the model *)

\* longest `ingredients` array of a request body
MaxIngredients == 2

\* longest Authorization header, in pieces (a space, a word or a token)
MaxHeader == 3

\* most requests one IP sends to POST /generate in one window
MaxSeen == 12

\* most requests one IP sends in one window when all body shapes are explored
MaxBurst == 2

\* longest `limit` or `offset` query string
MaxQueryLen == 3

\* most API calls the frontend has in flight at once
MaxInFlight == 2

\* most calls of queueRequest in one run
MaxRequests == 4

\* most calls of makeSecureRequest in one run
MaxCalls == 2

\* most requests the general limiter counts for the client in one window
MaxServerHits == 102

\* most star clicks while one RecipeDetail is mounted
MaxClicks == 2

\* most fetchRecipes calls in one run when their responses are told apart
MaxFetches == 3

---------------------------------------------------------------------------
(* JavaScript values.  A value is a record [t, n, s, a]: its type tag, its *)
(* number (or 0/1 for a boolean), its string as a sequence of characters,  *)
(* and its array elements (scalars [t, n, s]).                             *)

Undef == [t |-> "undefined", n |-> 0, s |-> <<>>, a |-> <<>>]
Null == [t |-> "null", n |-> 0, s |-> <<>>, a |-> <<>>]
Obj == [t |-> "object", n |-> 0, s |-> <<>>, a |-> <<>>]
Num(k) == [t |-> "number", n |-> k, s |-> <<>>, a |-> <<>>]
Str(chars) == [t |-> "string", n |-> 0, s |-> chars, a |-> <<>>]
Bool(b) == [t |-> "boolean", n |-> IF b THEN 1 ELSE 0, s |-> <<>>, a |-> <<>>]
Arr(elems) == [t |-> "array", n |-> 0, s |-> <<>>, a |-> elems]

\* array elements
ENum(k) == [t |-> "number", n |-> k, s |-> <<>>]
EStr(chars) == [t |-> "string", n |-> 0, s |-> chars]
ENull == [t |-> "null", n |-> 0, s |-> <<>>]

\* JavaScript's ToBoolean
Truthy(v) ==
    CASE v.t = "undefined" -> FALSE
      [] v.t = "null" -> FALSE
      [] v.t = "number" -> v.n # 0
      [] v.t = "boolean" -> v.n = 1
      [] v.t = "string" -> v.s # <<>>
      [] OTHER -> TRUE

\* JavaScript's typeof
TypeOf(v) ==
    CASE v.t = "undefined" -> "undefined"
      [] v.t = "number" -> "number"
      [] v.t = "boolean" -> "boolean"
      [] v.t = "string" -> "string"
      [] OTHER -> "object"

IsArray(v) == v.t = "array"

IsSpace(c) == c = " "

RECURSIVE TrimStart(_)
TrimStart(s) ==
    IF s = <<>> THEN <<>>
    ELSE IF IsSpace(Head(s)) THEN TrimStart(Tail(s)) ELSE s

RECURSIVE TrimEnd(_)
TrimEnd(s) ==
    IF s = <<>> THEN <<>>
    ELSE IF IsSpace(s[Len(s)]) THEN TrimEnd(SubSeq(s, 1, Len(s) - 1)) ELSE s

\* String.prototype.trim
Trim(s) == TrimEnd(TrimStart(s))

\* all sequences over S of length at most k
RECURSIVE SeqsUpTo(_, _)
SeqsUpTo(S, k) ==
    IF k = 0 THEN {<<>>}
    ELSE LET shorter == SeqsUpTo(S, k - 1)
         IN  shorter \cup {Append(q, x) : q \in {r \in shorter : Len(r) = k - 1}, x \in S}

---------------------------------------------------------------------------
(* recipeController.js: generateRecipe *)

NoError == [message |-> <<>>, code |-> "-"]

\* res.status(status).json({success, ...}); detail: the body's `error` field carries
\* the underlying error.message
Response(status, success, detail) == [status |-> status, success |-> success, detail |-> detail]
NoResponse == Response(0, FALSE, FALSE)

\* error.message as its words; message.includes(w) is membership
MessageWords == {"API key", "quota", "failed"}
ErrorCodes == {"none", "ECONNREFUSED", "ETIMEDOUT", "ENOTFOUND"}
ProviderErrors == [message : SeqsUpTo(MessageWords, 2), code : ErrorCodes]

Includes(message, w) == \E i \in 1..Len(message) : message[i] = w

IngredientElems == {EStr(<<" ", "a">>), EStr(<<" ">>), EStr(<<>>), ENum(5)}

IngredientValues ==
    {Undef, Null, Str(<<"a">>), Obj} \cup {Arr(q) : q \in SeqsUpTo(IngredientElems, MaxIngredients)}

ControllerBodies ==
    [ingredients : IngredientValues,
     cuisineType : {Undef, Str(<<"a">>), Num(5)},
     dietaryRestrictions : {Undef, Str(<<"a">>)},
     servings : {Undef, Num(0), Num(-1), Num(2), Str(<<"2">>)},
     cookingTime : {Undef, Num(-1)}]

\* mutant: the blank test without trim()
SomeBadIngredient_NoTrim(ingredients) ==
    \E i \in 1..Len(ingredients.a) :
        ingredients.a[i].t # "string" \/ ingredients.a[i].s = <<>>

\* ingredients.some(ingredient => typeof ingredient !== 'string' || ingredient.trim() === '')
SomeBadIngredient(ingredients) ==
    \E i \in 1..Len(ingredients.a) :
        ingredients.a[i].t # "string" \/ Trim(ingredients.a[i].s) = <<>>

\* the input validation of generateRecipe: the status it answers with, 0 when the
\* body passes
ValidateBody(body) ==
    IF ~Truthy(body.ingredients) \/ ~IsArray(body.ingredients)
       \/ Len(body.ingredients.a) = 0 THEN 400
    ELSE IF SomeBadIngredient(body.ingredients) THEN 400
    ELSE IF Truthy(body.cuisineType) /\ TypeOf(body.cuisineType) # "string" THEN 400
    ELSE IF Truthy(body.dietaryRestrictions) /\ ~IsArray(body.dietaryRestrictions) THEN 400
    ELSE IF Truthy(body.servings)
            /\ (TypeOf(body.servings) # "number" \/ body.servings.n < 1) THEN 400
    ELSE IF Truthy(body.cookingTime)
            /\ (TypeOf(body.cookingTime) # "number" \/ body.cookingTime.n < 0) THEN 400
    ELSE 0

\* mutant: the network-error test misses ETIMEDOUT
ErrorStatus_NoTimedOut(error) ==
    IF error.message # <<>> /\ Includes(error.message, "API key") THEN 401
    ELSE IF error.message # <<>> /\ Includes(error.message, "quota") THEN 429
    ELSE IF error.code = "ECONNREFUSED" THEN 503
    ELSE 500

\* the catch block of generateRecipe: the status for a caught error
ErrorStatus(error) ==
    IF error.message # <<>> /\ Includes(error.message, "API key") THEN 401
    ELSE IF error.message # <<>> /\ Includes(error.message, "quota") THEN 429
    ELSE IF error.code = "ECONNREFUSED" \/ error.code = "ETIMEDOUT" THEN 503
    ELSE 500

\* the `error` field of the generic 500 response carries error.message
ErrorDetail(error, env) == ErrorStatus(error) = 500 /\ env = "development"

\* mutant: a path ends without sending its response
Send_Nothing(sent) == sent

\* return res.status(...).json(...): one more response has gone out
Send(sent) == sent + 1

\* mutant: the API-key check never fires
ApiKeyMissing_Never(configured) == FALSE

\* if (!process.env.GEMINI_API_KEY)
ApiKeyMissing(configured) == ~configured

\* generateRecipe up to its first await: validation, the API-key check, and the
\* call of model.generateContent
GenerateRecipe(body) ==
    /\ cPc = "idle"
    /\ cBody' = body
    /\ cError' = NoError
    /\ IF ValidateBody(body) # 0
       THEN /\ cRes' = Response(ValidateBody(body), FALSE, FALSE)
            /\ cSent' = Send(cSent)
            /\ cCalls' = cCalls
            /\ cPc' = "done"
       ELSE IF ApiKeyMissing(geminiKey)
       THEN /\ cRes' = Response(500, FALSE, FALSE)
            /\ cSent' = Send(cSent)
            /\ cCalls' = cCalls
            /\ cPc' = "done"
       ELSE /\ cRes' = NoResponse
            /\ cSent' = cSent
            /\ cCalls' = cCalls + 1
            /\ cPc' = "awaiting"
    /\ UNCHANGED <<envVars, authVars, limiterVars, routerVars, listVars, serverVars, adminVars, clientVars>>

\* the provider call resolves; response.text() is recipeText
ProviderResolves(recipeText) ==
    /\ cPc = "awaiting"
    /\ cRes' = IF recipeText = <<>> THEN Response(500, FALSE, FALSE)
               ELSE Response(200, TRUE, FALSE)
    /\ cSent' = Send(cSent)
    /\ cPc' = "done"
    /\ UNCHANGED <<cBody, cCalls, cError, envVars, authVars, limiterVars, routerVars, listVars, serverVars, adminVars, clientVars>>

\* the provider call (or response.text()) throws
ProviderRejects(error) ==
    /\ cPc = "awaiting"
    /\ cError' = error
    /\ cRes' = Response(ErrorStatus(error), FALSE, ErrorDetail(error, nodeEnv))
    /\ cSent' = Send(cSent)
    /\ cPc' = "done"
    /\ UNCHANGED <<cBody, cCalls, envVars, authVars, limiterVars, routerVars, listVars, serverVars, adminVars, clientVars>>

\* the request is over; the next invocation starts with fresh locals
ControllerNextRequest ==
    /\ cPc = "done"
    /\ cPc' = "idle"
    /\ cBody' = [ingredients |-> Undef, cuisineType |-> Undef,
                 dietaryRestrictions |-> Undef, servings |-> Undef, cookingTime |-> Undef]
    /\ cRes' = NoResponse
    /\ cSent' = 0
    /\ cCalls' = 0
    /\ cError' = NoError
    /\ UNCHANGED <<envVars, authVars, limiterVars, routerVars, listVars, serverVars, adminVars, clientVars>>

---------------------------------------------------------------------------
(* recipeController.js: verifyToken.  The Authorization header is a string   *)
(* whose pieces are spaces, words and signed tokens.                         *)

Space == [kind |-> "space", key |-> "-", expired |-> FALSE, role |-> "-"]
Word(w) == [kind |-> "word", key |-> w, expired |-> FALSE, role |-> "-"]
\* a JWT signed with `key`, carrying `role`, past its expiry or not
Jwt(key, expired, role) == [kind |-> "jwt", key |-> key, expired |-> expired, role |-> role]

\* keys a token can be signed with: the value of JWT_SECRET, the literal
\* 'your-secret-key', any other key (a forged or tampered signature)
SignedWithSecret == "JWT_SECRET"
SignedWithDefault == "your-secret-key"
SignedWithOther == "other"

HeaderPieces ==
    {Space, Word("Bearer"),
     Jwt(SignedWithSecret, FALSE, "admin"), Jwt(SignedWithSecret, FALSE, "user"),
     Jwt(SignedWithSecret, TRUE, "admin"), Jwt(SignedWithDefault, FALSE, "admin"),
     Jwt(SignedWithOther, FALSE, "admin")}

NoHeader == <<Word("undefined")>>
Headers == {NoHeader} \cup SeqsUpTo(HeaderPieces, MaxHeader)

NoUser == [role |-> "-"]

\* String.prototype.split(' '): the fields between the spaces
RECURSIVE SplitFrom(_, _, _)
SplitFrom(rest, field, fields) ==
    IF rest = <<>> THEN Append(fields, field)
    ELSE IF Head(rest) = Space THEN SplitFrom(Tail(rest), <<>>, Append(fields, field))
    ELSE SplitFrom(Tail(rest), Append(field, Head(rest)), fields)

Split(header) == SplitFrom(header, <<>>, <<>>)

\* req.headers.authorization?.split(' ')[1]; <<>> is both undefined and ''
BearerToken(header) ==
    IF header = NoHeader THEN <<>>
    ELSE IF Len(Split(header)) < 2 THEN <<>>
    ELSE Split(header)[2]

\* process.env.JWT_SECRET || 'your-secret-key'
VerificationKey(configured) == IF configured THEN SignedWithSecret ELSE SignedWithDefault

\* mutant: the expiry of the token is not checked
JwtVerifies_IgnoreExpiry(token, key) ==
    /\ Len(token) = 1
    /\ token[1].kind = "jwt"
    /\ token[1].key = key

\* jwt.verify(token, key) returns (does not throw): the string is one well-formed
\* token, signed with key, not expired
JwtVerifies(token, key) ==
    /\ Len(token) = 1
    /\ token[1].kind = "jwt"
    /\ token[1].key = key
    /\ ~token[1].expired

\* the middleware verifyToken
VerifyToken(header) ==
    /\ aPc = "idle"
    /\ aHeader' = header
    /\ aPc' = "done"
    /\ IF BearerToken(header) = <<>>
       THEN /\ aRes' = Response(401, FALSE, FALSE)
            /\ aUser' = aUser
            /\ aNext' = aNext
       ELSE IF JwtVerifies(BearerToken(header), VerificationKey(jwtSecret))
       THEN /\ aUser' = [role |-> BearerToken(header)[1].role]
            /\ aNext' = aNext + 1
            /\ aRes' = aRes
       ELSE /\ aRes' = Response(401, FALSE, TRUE)
            /\ aUser' = aUser
            /\ aNext' = aNext
    /\ UNCHANGED <<envVars, controllerVars, limiterVars, routerVars, listVars, serverVars, adminVars, clientVars>>

\* the request is over; the next one arrives with a fresh req and res
AuthNextRequest ==
    /\ aPc = "done"
    /\ aPc' = "idle"
    /\ aHeader' = NoHeader
    /\ aUser' = NoUser
    /\ aRes' = NoResponse
    /\ aNext' = 0
    /\ UNCHANGED <<envVars, controllerVars, limiterVars, routerVars, listVars, serverVars, adminVars, clientVars>>

\* req.user for isAdmin: not set, or the decoded payload with its `role` claim
UserNotSet == [set |-> FALSE, role |-> Undef]
User(role) == [set |-> TRUE, role |-> role]

Roles ==
    {Undef, Null, Bool(TRUE), Num(1), Str(<<"admin">>), Str(<<"Admin">>), Str(<<"user">>),
     Str(<<"admin", " ">>), Arr(<<EStr(<<"admin">>)>>)}

\* mutant: any identity that has a role passes
Forbidden_AnyRole(user) == ~user.set \/ user.role = Undef

\* !req.user || req.user.role !== 'admin'
Forbidden(user) == ~user.set \/ user.role # Str(<<"admin">>)

\* the middleware isAdmin
IsAdmin(user) ==
    /\ gPc = "idle"
    /\ gPc' = "done"
    /\ gUser' = user
    /\ IF Forbidden(user)
       THEN /\ gRes' = Response(403, FALSE, FALSE)
            /\ gNext' = gNext
       ELSE /\ gRes' = gRes
            /\ gNext' = gNext + 1
    /\ UNCHANGED <<envVars, controllerVars, authVars, limiterVars, routerVars, listVars, serverVars, clientVars>>

\* the request is over; the next one arrives with a fresh req and res
AdminNextRequest ==
    /\ gPc = "done"
    /\ gPc' = "idle"
    /\ gUser' = UserNotSet
    /\ gRes' = NoResponse
    /\ gNext' = 0
    /\ UNCHANGED <<envVars, controllerVars, authVars, limiterVars, routerVars, listVars, serverVars, clientVars>>

InitAdmin ==
    /\ gPc = "idle"
    /\ gUser = UserNotSet
    /\ gRes = NoResponse
    /\ gNext = 0

InitAuth ==
    /\ aPc = "idle"
    /\ aHeader = NoHeader
    /\ aUser = NoUser
    /\ aRes = NoResponse
    /\ aNext = 0

---------------------------------------------------------------------------
(* JavaScript's number conversions.  A number is [nan, n]. *)

NaN == [nan |-> TRUE, n |-> 0]
Number(k) == [nan |-> FALSE, n |-> k]

DigitChars == <<"0", "1", "2", "3", "4", "5", "6", "7", "8", "9">>
IsDigit(c) == \E i \in 1..10 : DigitChars[i] = c
DigitValue(c) == (CHOOSE i \in 1..10 : DigitChars[i] = c) - 1

\* the longest prefix of s made of digits
RECURSIVE DigitPrefix(_)
DigitPrefix(s) ==
    IF s = <<>> \/ ~IsDigit(Head(s)) THEN <<>>
    ELSE <<Head(s)>> \o DigitPrefix(Tail(s))

\* the value of a string of digits
RECURSIVE DigitsValue(_)
DigitsValue(s) ==
    IF s = <<>> THEN 0
    ELSE 10 * DigitsValue(SubSeq(s, 1, Len(s) - 1)) + DigitValue(s[Len(s)])

\* parseInt(string): leading whitespace, a sign, then the longest digit prefix
ParseIntString(s) ==
    LET t == TrimStart(s)
        negative == t # <<>> /\ Head(t) = "-"
        signed == t # <<>> /\ (Head(t) = "-" \/ Head(t) = "+")
        digits == DigitPrefix(IF signed THEN Tail(t) ELSE t)
    IN  IF digits = <<>> THEN NaN
        ELSE Number(IF negative THEN 0 - DigitsValue(digits) ELSE DigitsValue(digits))

\* Number(string): the whole trimmed string is an optionally signed integer
StringToNumber(s) ==
    LET t == Trim(s)
        negative == t # <<>> /\ Head(t) = "-"
        signed == t # <<>> /\ (Head(t) = "-" \/ Head(t) = "+")
        body == IF signed THEN Tail(t) ELSE t
    IN  IF t = <<>> THEN Number(0)
        ELSE IF body = <<>> \/ DigitPrefix(body) # body THEN NaN
        ELSE Number(IF negative THEN 0 - DigitsValue(body) ELSE DigitsValue(body))

\* ToNumber of a scalar
ScalarToNumber(e) ==
    CASE e.t = "number" -> Number(e.n)
      [] e.t = "boolean" -> Number(e.n)
      [] e.t = "null" -> Number(0)
      [] e.t = "string" -> StringToNumber(e.s)
      [] OTHER -> NaN

\* ToNumber: an array converts through its string, so [] is 0, [x] is
\* ToNumber(String(x)) and a longer array is NaN
ToNumber(v) ==
    CASE v.t = "array" ->
            IF v.a = <<>> THEN Number(0)
            ELSE IF Len(v.a) > 1 THEN NaN
            ELSE IF v.a[1].t = "null" THEN Number(0)
            ELSE ScalarToNumber(v.a[1])
      [] v.t = "undefined" -> NaN
      [] v.t = "object" -> NaN
      [] OTHER -> ScalarToNumber([t |-> v.t, n |-> v.n, s |-> v.s])

\* x < y and x > y on numbers: false when either is NaN
LessThan(x, y) == ~x.nan /\ ~y.nan /\ x.n < y.n
GreaterThan(x, y) == ~x.nan /\ ~y.nan /\ x.n > y.n

---------------------------------------------------------------------------
(* The recipes router: POST /generate behind recipeGenerationLimiter *)

IPs == {"ip1", "ip2"}
Callers == {"anonymous", "user", "admin"}

\* max: the ceiling of requests per IP and window
max == 10

\* router.post('/generate', recipeGenerationLimiter, handler)
GenerateChain == <<"recipeGenerationLimiter", "handler">>

\* a middleware that sets req.user runs before the limiter
AuthBeforeLimiter ==
    \E j \in 1..Len(GenerateChain) :
        /\ GenerateChain[j] = "verifyToken"
        /\ \A k \in 1..j : GenerateChain[k] # "recipeGenerationLimiter"

\* req.user when the limiter runs
ReqUser(caller) ==
    IF AuthBeforeLimiter /\ caller # "anonymous" THEN [role |-> caller] ELSE NoUser

\* skip: req.user && req.user.role === 'admin'
Skip(user) == user # NoUser /\ user.role = "admin"

\* mutant: the limiter rejects from the ceiling on, not above it
LimitExceeded_AtCeiling(totalHits) == totalHits >= max

\* express-rate-limit rejects a request once the IP's count exceeds max
LimitExceeded(totalHits) == totalHits > max

StrWord(w) == Str(<<w>>)

ServingsValues ==
    {Undef, Null, Obj, Bool(TRUE), Num(-1), Num(0), Num(1), Num(4), Num(20), Num(21),
     Str(<<"5">>), Str(<<"2", "5">>), Str(<<"a">>)}

PreferenceValues ==
    {Undef, Null, Num(15), StrWord("quick"), StrWord("medium"), StrWord("long"),
     StrWord("slow")}

RouterBodies ==
    [ingredients : {Undef, Str(<<"a">>), Arr(<<>>), Arr(<<EStr(<<"a">>)>>),
                    Arr(<<EStr(<<"a">>), EStr(<<" ">>)>>), Arr(<<ENum(5)>>)},
     dietaryRestrictions : {Undef, Arr(<<EStr(<<"a">>)>>)},
     servings : ServingsValues,
     cookingTimePreference : PreferenceValues,
     cuisineType : {Undef}]

LimiterBodies ==
    [ingredients : {Arr(<<>>), Arr(<<EStr(<<"a">>)>>)},
     dietaryRestrictions : {Undef},
     servings : {Num(4)},
     cookingTimePreference : {StrWord("quick")},
     cuisineType : {Undef}]

NoBody ==
    [ingredients |-> Undef, dietaryRestrictions |-> Undef, servings |-> Undef,
     cookingTimePreference |-> Undef, cuisineType |-> Undef]

\* a destructuring default: `field = value` applies when the field is undefined
Default(v, value) == IF v = Undef THEN value ELSE v

NoRecipe ==
    [ingredients |-> <<>>, estimatedCookingTime |-> 0, servings |-> Undef,
     cuisineType |-> Undef, dietaryRestrictions |-> Undef]

\* mutant: the upper end of the servings range is not enforced
ServingsOutOfRange_NoUpper(servings) == LessThan(ToNumber(servings), Number(1))

\* servings < 1 || servings > 20
ServingsOutOfRange(servings) ==
    \/ LessThan(ToNumber(servings), Number(1))
    \/ GreaterThan(ToNumber(servings), Number(20))

\* ['quick', 'medium', 'long'].includes(cookingTimePreference)
PreferenceAccepted(preference) ==
    preference \in {StrWord("quick"), StrWord("medium"), StrWord("long")}

\* mutant: 'medium' and 'long' swapped
EstimatedCookingTime_Swapped(preference) ==
    IF preference = StrWord("quick") THEN 15
    ELSE IF preference = StrWord("medium") THEN 60 ELSE 30

\* cookingTimePreference === 'quick' ? 15 : cookingTimePreference === 'medium' ? 30 : 60
EstimatedCookingTime(preference) ==
    IF preference = StrWord("quick") THEN 15
    ELSE IF preference = StrWord("medium") THEN 30 ELSE 60

\* the route handler of POST /generate: [res, recipe]
GenerateHandler(body) ==
    LET ingredients == body.ingredients
        dietaryRestrictions == Default(body.dietaryRestrictions, Arr(<<>>))
        servings == Default(body.servings, Num(1))
        cookingTimePreference == Default(body.cookingTimePreference, StrWord("medium"))
        cuisineType == Default(body.cuisineType, StrWord("any"))
    IN  IF ~Truthy(ingredients) \/ ~IsArray(ingredients) \/ Len(ingredients.a) = 0
        THEN [res |-> Response(400, FALSE, FALSE), recipe |-> NoRecipe]
        ELSE IF ServingsOutOfRange(servings)
        THEN [res |-> Response(400, FALSE, FALSE), recipe |-> NoRecipe]
        ELSE IF ~PreferenceAccepted(cookingTimePreference)
        THEN [res |-> Response(400, FALSE, FALSE), recipe |-> NoRecipe]
        ELSE [res |-> Response(200, TRUE, FALSE),
              recipe |-> [ingredients |-> ingredients.a,
                          estimatedCookingTime |-> EstimatedCookingTime(cookingTimePreference),
                          servings |-> servings,
                          cuisineType |-> cuisineType,
                          dietaryRestrictions |-> dietaryRestrictions]]

\* one request to POST /generate: the limiter, then the handler if it lets the
\* request through
PostGenerate(ip, caller, body) ==
    /\ rPc = "idle"
    /\ rPc' = "done"
    /\ rIp' = ip
    /\ rCaller' = caller
    /\ rBody' = body
    /\ seen' = [seen EXCEPT ![ip] = @ + 1]
    /\ IF Skip(ReqUser(caller))
       THEN /\ rLimiter' = "skipped"
            /\ hits' = hits
            /\ rHandled' = TRUE
            /\ rRes' = GenerateHandler(body).res
            /\ rRecipe' = GenerateHandler(body).recipe
       ELSE /\ hits' = [hits EXCEPT ![ip] = @ + 1]
            /\ IF LimitExceeded(hits[ip] + 1)
               THEN /\ rLimiter' = "rejected"
                    /\ rHandled' = FALSE
                    /\ rRes' = Response(429, FALSE, FALSE)
                    /\ rRecipe' = NoRecipe
               ELSE /\ rLimiter' = "passed"
                    /\ rHandled' = TRUE
                    /\ rRes' = GenerateHandler(body).res
                    /\ rRecipe' = GenerateHandler(body).recipe
    /\ UNCHANGED <<envVars, controllerVars, authVars, listVars, serverVars, adminVars, clientVars>>

\* the request is over; the next one arrives with a fresh req and res
RouterNextRequest ==
    /\ rPc = "done"
    /\ rPc' = "idle"
    /\ rIp' = "-"
    /\ rCaller' = "-"
    /\ rLimiter' = "-"
    /\ rHandled' = FALSE
    /\ rBody' = NoBody
    /\ rRes' = NoResponse
    /\ rRecipe' = NoRecipe
    /\ UNCHANGED <<envVars, controllerVars, authVars, limiterVars, listVars, serverVars, adminVars, clientVars>>

\* the catch block of the route handler: the `error` field carries error.message
\* when NODE_ENV === 'development'
HandlerCatch(env) == Response(500, FALSE, env = "development")

\* one request to POST /generate whose req.body is undefined (no body parser has
\* filled it in): the destructuring of req.body throws and the catch block answers
PostGenerateUnparsed(ip, caller) ==
    /\ rPc = "idle"
    /\ rPc' = "done"
    /\ rIp' = ip
    /\ rCaller' = caller
    /\ rBody' = NoBody
    /\ rRecipe' = NoRecipe
    /\ seen' = [seen EXCEPT ![ip] = @ + 1]
    /\ IF Skip(ReqUser(caller))
       THEN /\ rLimiter' = "skipped"
            /\ hits' = hits
            /\ rHandled' = TRUE
            /\ rRes' = HandlerCatch(nodeEnv)
       ELSE /\ hits' = [hits EXCEPT ![ip] = @ + 1]
            /\ IF LimitExceeded(hits[ip] + 1)
               THEN /\ rLimiter' = "rejected"
                    /\ rHandled' = FALSE
                    /\ rRes' = Response(429, FALSE, FALSE)
               ELSE /\ rLimiter' = "passed"
                    /\ rHandled' = TRUE
                    /\ rRes' = HandlerCatch(nodeEnv)
    /\ UNCHANGED <<envVars, controllerVars, authVars, listVars, serverVars, adminVars, clientVars>>

\* windowMs has passed: the store forgets every count
WindowReset ==
    /\ rPc = "idle"
    /\ \E ip \in IPs : seen[ip] > 0
    /\ hits' = [ip \in IPs |-> 0]
    /\ seen' = [ip \in IPs |-> 0]
    /\ UNCHANGED <<envVars, controllerVars, authVars, routerVars, listVars, serverVars, adminVars, clientVars>>

InitRouter ==
    /\ hits = [ip \in IPs |-> 0]
    /\ seen = [ip \in IPs |-> 0]
    /\ rPc = "idle"
    /\ rIp = "-"
    /\ rCaller = "-"
    /\ rLimiter = "-"
    /\ rHandled = FALSE
    /\ rBody = NoBody
    /\ rRes = NoResponse
    /\ rRecipe = NoRecipe

---------------------------------------------------------------------------
(* The recipes router: GET / *)

QueryChars == {"-", "5", "a"}

\* a query parameter is absent or a string
QueryValues == {Undef} \cup {Str(q) : q \in SeqsUpTo(QueryChars, MaxQueryLen)}

NoQuery == [limit |-> Undef, offset |-> Undef]

\* parseInt(value): the value is converted to a string first
ParseInt(v) ==
    CASE v.t = "number" -> Number(v.n)
      [] v.t = "string" -> ParseIntString(v.s)
      [] OTHER -> NaN

\* Math.min(x, y): NaN when either is NaN
MathMin(x, y) ==
    IF x.nan \/ y.nan THEN NaN ELSE Number(IF x.n < y.n THEN x.n ELSE y.n)

ListResponse(status, limit, offset) == [status |-> status, limit |-> limit, offset |-> offset]
NoListResponse == ListResponse(0, NaN, NaN)

\* the pagination block of GET /
Pagination(limit, offset) ==
    [limit |-> MathMin(ParseInt(Default(limit, Num(20))), Number(100)),
     offset |-> ParseInt(Default(offset, Num(0)))]

\* the route handler of GET /
GetRecipes(limit, offset) ==
    /\ lPc = "idle"
    /\ lPc' = "done"
    /\ lQuery' = [limit |-> limit, offset |-> offset]
    /\ lRes' = ListResponse(200, Pagination(limit, offset).limit,
                            Pagination(limit, offset).offset)
    /\ UNCHANGED <<envVars, controllerVars, authVars, limiterVars, routerVars, serverVars, adminVars, clientVars>>

\* the request is over; the next one arrives with a fresh req and res
ListNextRequest ==
    /\ lPc = "done"
    /\ lPc' = "idle"
    /\ lQuery' = NoQuery
    /\ lRes' = NoListResponse
    /\ UNCHANGED <<envVars, controllerVars, authVars, limiterVars, routerVars, serverVars, adminVars, clientVars>>

InitList ==
    /\ lPc = "idle"
    /\ lQuery = NoQuery
    /\ lRes = NoListResponse

---------------------------------------------------------------------------
(* FitRecipeApp.tsx: the recipes, history and selection state of the main    *)
(* component and the API calls that change it.  Toasts, dark mode, the       *)
(* search box and the new-recipe form are presentation state and left out.   *)

\* a recipe: its id and its content
Recipe(id, name) == [id |-> id, name |-> name]
NoSelection == Recipe(0, "-")

\* a history entry embeds a copy of the recipe
HistoryEntry(id, recipe) == [id |-> id, recipe |-> recipe]

\* what GET /api/recipes may answer
ServerRecipeLists ==
    {<<>>, <<Recipe(1, "a"), Recipe(2, "a")>>, <<Recipe(1, "b")>>}

\* what GET /api/recipe-history may answer
ServerHistories ==
    {<<>>, <<HistoryEntry(1, Recipe(1, "a")), HistoryEntry(2, Recipe(2, "a"))>>}

Call(op, id) == [op |-> op, id |-> id]

\* the calls in flight without the i-th
Settle(i) == SubSeq(calls, 1, i - 1) \o SubSeq(calls, i + 1, Len(calls))

\* prev.filter((r) => r.id !== recipeId)
RECURSIVE WithoutRecipe(_, _)
WithoutRecipe(prev, recipeId) ==
    IF prev = <<>> THEN <<>>
    ELSE IF Head(prev).id # recipeId
         THEN <<Head(prev)>> \o WithoutRecipe(Tail(prev), recipeId)
         ELSE WithoutRecipe(Tail(prev), recipeId)

\* the view rendered: history, else the detail of the selection, else the list
View ==
    IF showHistory THEN "history"
    ELSE IF selectedRecipe # NoSelection THEN "detail" ELSE "list"

\* fetchRecipes up to its await (the mount effect, the Apply Filters button)
FetchRecipes ==
    /\ Len(calls) < MaxInFlight
    /\ loading' = TRUE
    /\ calls' = Append(calls, Call("getRecipes", 0))
    /\ appOp' = "fetchRecipes"
    /\ UNCHANGED <<recipes, recipeHistory, selectedRecipe, showHistory, backendVars, apiVars>>

\* fetchRecipes after its await: setRecipes(data), finally setLoading(false)
GetRecipesResolves(i, data) ==
    /\ calls[i].op = "getRecipes"
    /\ recipes' = data
    /\ loading' = FALSE
    /\ calls' = Settle(i)
    /\ appOp' = "fetchRecipes"
    /\ UNCHANGED <<recipeHistory, selectedRecipe, showHistory, backendVars, apiVars>>

\* fetchRecipes when the call fails: finally setLoading(false)
GetRecipesRejects(i) ==
    /\ calls[i].op = "getRecipes"
    /\ loading' = FALSE
    /\ calls' = Settle(i)
    /\ appOp' = "fetchRecipes"
    /\ UNCHANGED <<recipes, recipeHistory, selectedRecipe, showHistory, backendVars, apiVars>>

\* handleSelectRecipe up to its first await (a click on a card of the list)
HandleSelectRecipe(recipe) ==
    /\ View = "list"
    /\ Len(calls) < MaxInFlight
    /\ selectedRecipe' = recipe
    /\ calls' = Append(calls, Call("addToHistory", recipe.id))
    /\ appOp' = "handleSelectRecipe"
    /\ UNCHANGED <<recipes, recipeHistory, loading, showHistory, backendVars, apiVars, raceVars>>

\* handleSelectRecipe after addToHistory: it calls fetchRecipeHistory
AddToHistoryResolves(i) ==
    /\ calls[i].op = "addToHistory"
    /\ calls' = Append(Settle(i), Call("getRecipeHistory", 0))
    /\ appOp' = "handleSelectRecipe"
    /\ UNCHANGED <<recipes, recipeHistory, selectedRecipe, loading, showHistory, backendVars, apiVars, raceVars>>

\* handleSelectRecipe when addToHistory fails: the error is logged
AddToHistoryRejects(i) ==
    /\ calls[i].op = "addToHistory"
    /\ calls' = Settle(i)
    /\ appOp' = "handleSelectRecipe"
    /\ UNCHANGED <<recipes, recipeHistory, selectedRecipe, loading, showHistory, backendVars, apiVars, raceVars>>

\* the History button: setShowHistory(!showHistory), and fetchRecipeHistory when
\* the history was hidden
ToggleHistory ==
    /\ showHistory' = ~showHistory
    /\ IF ~showHistory
       THEN /\ Len(calls) < MaxInFlight
            /\ calls' = Append(calls, Call("getRecipeHistory", 0))
       ELSE calls' = calls
    /\ appOp' = "toggleHistory"
    /\ UNCHANGED <<recipes, recipeHistory, selectedRecipe, loading, backendVars, apiVars, raceVars>>

\* fetchRecipeHistory after its await: setRecipeHistory(data)
GetRecipeHistoryResolves(i, data) ==
    /\ calls[i].op = "getRecipeHistory"
    /\ recipeHistory' = data
    /\ calls' = Settle(i)
    /\ appOp' = "fetchRecipeHistory"
    /\ UNCHANGED <<recipes, selectedRecipe, loading, showHistory, backendVars, apiVars, raceVars>>

\* fetchRecipeHistory when the call fails
GetRecipeHistoryRejects(i) ==
    /\ calls[i].op = "getRecipeHistory"
    /\ calls' = Settle(i)
    /\ appOp' = "fetchRecipeHistory"
    /\ UNCHANGED <<recipes, recipeHistory, selectedRecipe, loading, showHistory, backendVars, apiVars, raceVars>>

\* View Recipe on a history card: the entry's embedded recipe is selected
ViewHistoryEntry(k) ==
    /\ View = "history"
    /\ selectedRecipe' = recipeHistory[k].recipe
    /\ showHistory' = FALSE
    /\ appOp' = "viewHistoryEntry"
    /\ UNCHANGED <<recipes, recipeHistory, loading, calls, backendVars, apiVars, raceVars>>

\* onBack of the detail view
Back ==
    /\ View = "detail"
    /\ selectedRecipe' = NoSelection
    /\ appOp' = "onBack"
    /\ UNCHANGED <<recipes, recipeHistory, loading, showHistory, calls, backendVars, apiVars, raceVars>>

\* mutant: the answer of window.confirm is ignored
Proceeds_Always(confirmed) == TRUE

\* if (!window.confirm(...)) return;
Proceeds(confirmed) == confirmed

\* handleDeleteRecipe up to its await (the Delete button of the detail view):
\* nothing happens unless window.confirm returns true
HandleDeleteRecipe(confirmed) ==
    /\ View = "detail"
    /\ IF Proceeds(confirmed)
       THEN /\ Len(calls) < MaxInFlight
            /\ calls' = Append(calls, Call("deleteRecipe", selectedRecipe.id))
       ELSE calls' = calls
    /\ appOp' = "handleDeleteRecipe"
    /\ UNCHANGED <<recipes, recipeHistory, selectedRecipe, loading, showHistory, backendVars, apiVars, raceVars>>

\* mutant: the delete cascades to the history entries that embed the recipe
HistoryAfterDelete_Cascade(history, recipeId) ==
    SelectSeq(history, LAMBDA h : h.recipe.id # recipeId)

\* recipeHistory after a successful delete: handleDeleteRecipe never calls
\* setRecipeHistory
HistoryAfterDelete(history, recipeId) == history

\* handleDeleteRecipe after its await: the recipe leaves `recipes`, the selection
\* is cleared
DeleteRecipeResolves(i) ==
    /\ calls[i].op = "deleteRecipe"
    /\ recipes' = WithoutRecipe(recipes, calls[i].id)
    /\ selectedRecipe' = NoSelection
    /\ recipeHistory' = HistoryAfterDelete(recipeHistory, calls[i].id)
    /\ calls' = Settle(i)
    /\ appOp' = "deleteRecipe"
    /\ UNCHANGED <<loading, showHistory, backendVars, apiVars, raceVars>>

\* handleDeleteRecipe when the call fails
DeleteRecipeRejects(i) ==
    /\ calls[i].op = "deleteRecipe"
    /\ calls' = Settle(i)
    /\ appOp' = "handleDeleteRecipe"
    /\ UNCHANGED <<recipes, recipeHistory, selectedRecipe, loading, showHistory, backendVars, apiVars, raceVars>>

\* the outcome of one fetchRecipes call: "pending", "failed", or "ok" with the
\* list the server answered
FetchOutcome(status, data) == [status |-> status, data |-> data]

\* bookkeeping of the fetchRecipes calls, kept beside the three steps of
\* fetchRecipes: which call each response belongs to
IssueFetch ==
    /\ fetchCount' = fetchCount + 1
    /\ fetchTickets' = Append(fetchTickets, fetchCount + 1)
    /\ fetchData' = Append(fetchData, FetchOutcome("pending", <<>>))

SettleFetch(i, status, data) ==
    /\ fetchCount' = fetchCount
    /\ fetchTickets' = SubSeq(fetchTickets, 1, i - 1) \o SubSeq(fetchTickets, i + 1, Len(fetchTickets))
    /\ fetchData' = [fetchData EXCEPT ![fetchTickets[i]] = FetchOutcome(status, data)]

InitApp ==
    /\ fetchCount = 0
    /\ fetchTickets = <<>>
    /\ fetchData = <<>>
    /\ recipes = <<>>
    /\ recipeHistory = <<>>
    /\ selectedRecipe = NoSelection
    /\ loading = FALSE
    /\ showHistory = FALSE
    /\ calls = <<>>
    /\ appOp = "-"

---------------------------------------------------------------------------
(* FitRecipeApp.tsx: the request queue of SecureRecipeAPI.  A queued item is  *)
(* the request function with the ordinal of the queueRequest call that        *)
(* brought it; the ordinal is bookkeeping of the model, the code sees the     *)
(* function only.                                                             *)

\* the request functions callers pass
RequestFns == {"f", "g"}

Item(fn, ticket) == [fn |-> fn, ticket |-> ticket]

\* one executeQueue invocation inside its while loop: at `await request()`
\* ("awaiting") or with the awaited request settled and the continuation due
Drain(pc, request, result) == [pc |-> pc, request |-> request, result |-> result]

\* mutant: push drops a function that is already waiting in the queue
Push_Dedup(queue, request) ==
    IF \E i \in 1..Len(queue) : queue[i].fn = request.fn THEN queue
    ELSE Append(queue, request)

\* this.requestQueue.push(request)
Push(queue, request) == Append(queue, request)

\* mutant: the loop takes the newest item
Shift_Pop(queue) == [request |-> queue[Len(queue)], rest |-> SubSeq(queue, 1, Len(queue) - 1)]

\* this.requestQueue.shift()
Shift(queue) == [request |-> Head(queue), rest |-> Tail(queue)]

\* mutant: executeQueue returns whatever the state
ExecuteQueueReturns_Always(processing, queue) == TRUE

\* mutant: the guard does not look at isProcessing
ExecuteQueueReturns_IgnoresProcessing(processing, queue) == Len(queue) = 0

\* if (this.isProcessing || this.requestQueue.length === 0) return;
ExecuteQueueReturns(processing, queue) == processing \/ Len(queue) = 0

\* mutant: no catch around the await, a rejection leaves the loop
LoopSurvives_NoCatch(result) == result = "resolved"

\* try { await request(); } catch (error) { console.error(...) }: the loop goes
\* on after a request that resolved and after one that rejected or threw
LoopSurvives(result) == result = "resolved" \/ result = "rejected"

Without(seq, i) == SubSeq(seq, 1, i - 1) \o SubSeq(seq, i + 1, Len(seq))

\* queueRequest(request): push, then executeQueue() up to its first await
QueueRequest(fn) ==
    /\ Len(enqueued) < MaxRequests
    /\ enqueued' = Append(enqueued, fn)
    /\ LET pushed == Push(requestQueue, Item(fn, Len(enqueued) + 1))
       IN  IF ExecuteQueueReturns(isProcessing, pushed)
           THEN /\ requestQueue' = pushed
                /\ UNCHANGED <<isProcessing, drains, started>>
           ELSE /\ isProcessing' = TRUE
                /\ requestQueue' = Shift(pushed).rest
                /\ drains' = Append(drains, Drain("awaiting", Shift(pushed).request, "-"))
                /\ started' = Append(started, Shift(pushed).request.ticket)
    /\ UNCHANGED <<settled, fetchVars, backendVars, appVars, detailVars>>

\* the promise a drain loop awaits settles (a request that throws at once
\* counts as rejected)
RequestSettles(i, result) ==
    /\ drains[i].pc = "awaiting"
    /\ drains' = [drains EXCEPT ![i] = Drain("settled", @.request, result)]
    /\ settled' = Append(settled, [ticket |-> drains[i].request.ticket, result |-> result])
    /\ UNCHANGED <<requestQueue, isProcessing, enqueued, started, fetchVars, backendVars, appVars, detailVars>>

\* the continuation of `await request()`: the catch, the loop test, and either
\* the next shift and invocation or the end of executeQueue
Resume(i) ==
    /\ drains[i].pc = "settled"
    /\ IF ~LoopSurvives(drains[i].result)
       THEN /\ drains' = Without(drains, i)
            /\ UNCHANGED <<requestQueue, isProcessing, started>>
       ELSE IF Len(requestQueue) > 0
       THEN /\ requestQueue' = Shift(requestQueue).rest
            /\ drains' = [drains EXCEPT ![i] = Drain("awaiting", Shift(requestQueue).request, "-")]
            /\ started' = Append(started, Shift(requestQueue).request.ticket)
            /\ UNCHANGED isProcessing
       ELSE /\ isProcessing' = FALSE
            /\ drains' = Without(drains, i)
            /\ UNCHANGED <<requestQueue, started>>
    /\ UNCHANGED <<enqueued, settled, fetchVars, backendVars, appVars, detailVars>>

---------------------------------------------------------------------------
(* FitRecipeApp.tsx: makeSecureRequest.  Each call has its own AbortController *)
(* and its own timer.                                                         *)

Methods == {"GET", "POST"}

\* one call: pc is "fetching" (at `await fetch`), "reading" (at `await
\* response.json()`) or "done"; fetched tells how the fetch promise settled
SecureCall(method, pc, timer, aborted, fetched, outcome) ==
    [method |-> method, pc |-> pc, timer |-> timer, aborted |-> aborted,
     fetched |-> fetched, outcome |-> outcome]

\* mutant: clearTimeout leaves the timer armed
ClearTimeout_Noop(timer) == timer

\* clearTimeout(timeoutId): cancels a timer that has not fired
ClearTimeout(timer) == IF timer = "armed" THEN "cleared" ELSE timer

\* the catch block: what the call rejects with for a caught error
CatchError(name) == IF name = "AbortError" THEN "Request timeout" ELSE name

\* makeSecureRequest up to `await fetch(...)`: the timer is armed, the fetch sent
MakeSecureRequest(method) ==
    /\ Len(secureCalls) < MaxCalls
    /\ secureCalls' = Append(secureCalls,
                             SecureCall(method, "fetching", "armed", FALSE, "pending", "-"))
    /\ UNCHANGED <<queueVars, backendVars, appVars, detailVars>>

\* the timer's callback: controller.abort()
TimerFires(i) ==
    /\ secureCalls[i].timer = "armed"
    /\ secureCalls' = [secureCalls EXCEPT ![i].timer = "fired", ![i].aborted = TRUE]
    /\ UNCHANGED <<queueVars, backendVars, appVars, detailVars>>

\* fetch resolves with a response: clearTimeout, then the response.ok test
FetchResolves(i, ok) ==
    /\ secureCalls[i].pc = "fetching"
    /\ ~secureCalls[i].aborted
    /\ secureCalls' =
          [secureCalls EXCEPT ![i] =
              IF ok
              THEN SecureCall(@.method, "reading", ClearTimeout(@.timer), @.aborted,
                              "response", "-")
              ELSE SecureCall(@.method, "done", ClearTimeout(ClearTimeout(@.timer)),
                              @.aborted, "response", CatchError("API error"))]
    /\ UNCHANGED <<queueVars, backendVars, appVars, detailVars>>

\* fetch rejects: with an AbortError once the signal is aborted, with a TypeError
\* (network failure) otherwise; the catch block runs
FetchRejects(i) ==
    /\ secureCalls[i].pc = "fetching"
    /\ LET name == IF secureCalls[i].aborted THEN "AbortError" ELSE "TypeError"
       IN  secureCalls' =
             [secureCalls EXCEPT ![i] =
                 SecureCall(@.method, "done", ClearTimeout(@.timer), @.aborted,
                            name, CatchError(name))]
    /\ UNCHANGED <<queueVars, backendVars, appVars, detailVars>>

\* response.json() settles: with the parsed body, with a SyntaxError, or, the
\* signal being aborted, with an AbortError
JsonSettles(i, parsed) ==
    /\ secureCalls[i].pc = "reading"
    /\ secureCalls' =
          [secureCalls EXCEPT ![i] =
              IF @.aborted
              THEN SecureCall(@.method, "done", ClearTimeout(@.timer), @.aborted,
                              @.fetched, CatchError("AbortError"))
              ELSE IF parsed
              THEN SecureCall(@.method, "done", @.timer, @.aborted, @.fetched, "value")
              ELSE SecureCall(@.method, "done", ClearTimeout(@.timer), @.aborted,
                              @.fetched, CatchError("SyntaxError"))]
    /\ UNCHANGED <<queueVars, backendVars, appVars, detailVars>>

InitFetch == secureCalls = <<>>

---------------------------------------------------------------------------
(* FitRecipeApp.tsx: the rating input of RecipeDetail and handleRateRecipe *)

\* the historyEntry prop: undefined, or an entry with its optional rating
NoEntry == [present |-> FALSE, rating |-> Undef]
Entry(rating) == [present |-> TRUE, rating |-> rating]
Entries == {NoEntry} \cup {Entry(r) : r \in {Undef, Num(1), Num(3), Num(5)}}

NoSubmission == -1

\* the stars rendered: [1, 2, 3, 4, 5].map(...)
Stars == {1, 2, 3, 4, 5}

\* useState(historyEntry?.rating || 0)
InitialRating(entry) ==
    IF entry.present /\ Truthy(entry.rating) THEN entry.rating.n ELSE 0

\* RecipeDetail is mounted (a recipe is selected); the rating state gets its
\* initial value
MountDetail(entry) ==
    /\ ~dOpen
    /\ dOpen' = TRUE
    /\ dEntry' = entry
    /\ dRating' = InitialRating(entry)
    /\ dClicks' = 0
    /\ dSubmitted' = NoSubmission
    /\ UNCHANGED <<queueVars, fetchVars, backendVars, appVars>>

\* recipeHistory changes while the component stays mounted: the prop follows,
\* the rating state keeps its value
HistoryEntryChanges(entry) ==
    /\ dOpen
    /\ entry # dEntry
    /\ dEntry' = entry
    /\ UNCHANGED <<dOpen, dRating, dClicks, dSubmitted, queueVars, fetchVars, backendVars, appVars>>

\* onClick={() => setRating(star)}
SetRating(star) ==
    /\ dOpen /\ dEntry.present
    /\ dRating' = star
    /\ dClicks' = dClicks + 1
    /\ UNCHANGED <<dOpen, dEntry, dSubmitted, queueVars, fetchVars, backendVars, appVars>>

\* Save Rating: onRate(historyEntry.id, rating, notes), that is handleRateRecipe,
\* which passes the rating to rateRecipe
SaveRating ==
    /\ dOpen /\ dEntry.present
    /\ dSubmitted' = dRating
    /\ UNCHANGED <<dOpen, dEntry, dRating, dClicks, queueVars, fetchVars, backendVars, appVars>>

\* Back: the component is unmounted and its state discarded
UnmountDetail ==
    /\ dOpen
    /\ dOpen' = FALSE
    /\ dEntry' = NoEntry
    /\ dRating' = 0
    /\ dClicks' = 0
    /\ dSubmitted' = NoSubmission
    /\ UNCHANGED <<queueVars, fetchVars, backendVars, appVars>>

InitDetail ==
    /\ dOpen = FALSE
    /\ dEntry = NoEntry
    /\ dRating = 0
    /\ dClicks = 0
    /\ dSubmitted = NoSubmission

InitQueue ==
    /\ requestQueue = <<>>
    /\ isProcessing = FALSE
    /\ drains = <<>>
    /\ enqueued = <<>>
    /\ started = <<>>
    /\ settled = <<>>

---------------------------------------------------------------------------
(* server.js: the application's middleware chain, its routes, the 404 handler *)
(* and the global error handler, for the requests of one client IP.           *)

\* the general limiter's max
apiMax == 100

\* a request: its method, its path as segments, its body ("none", "json": well
\* formed JSON, "malformed": JSON that does not parse)
Request(method, path, body) == [method |-> method, path |-> path, body |-> body]

ServerRequests ==
    {Request("GET", path, "none") :
        path \in {<<>>, <<"health">>, <<"api", "health">>, <<"api", "recipes">>, <<"other">>}}
    \cup {Request("POST", path, body) :
            path \in {<<"health">>, <<"api", "recipes", "generate">>},
            body \in {"json", "malformed"}}

NoRequest == Request("-", <<>>, "none")

\* a response: json tells res.json from res.send of a string; keys are the
\* fields of the JSON body
ServerResponse(status, json, keys) == [status |-> status, json |-> json, keys |-> keys]
NoServerResponse == ServerResponse(0, FALSE, {})

\* const NODE_ENV = process.env.NODE_ENV || 'development'
NODE_ENV(env) == IF env = "" THEN "development" ELSE env

\* app.use('/api/', limiter): the paths the limiter is mounted on
UnderApi(path) == Len(path) >= 1 /\ path[1] = "api"

\* express-rate-limit rejects a request once the count exceeds max
ApiLimitExceeded(totalHits) == totalHits > apiMax

\* express.json(): the error it passes on for a body that does not parse
\* (statusCode 0: no error)
BodyParserError(body) == [statusCode |-> IF body = "malformed" THEN 400 ELSE 0]

\* mutant: the stack is sent in every environment
StackDisclosed_Always(env) == TRUE

\* NODE_ENV === 'development' && { stack: err.stack }
StackDisclosed(env) == NODE_ENV(env) = "development"

\* the global error handler's response
ErrorResponse(err, env) ==
    ServerResponse(IF err.statusCode # 0 THEN err.statusCode ELSE 500, TRUE,
                   {"status", "statusCode", "message", "timestamp"}
                       \cup (IF StackDisclosed(env) THEN {"stack"} ELSE {}))

\* mutant: the root route answers every request no other route answers
Route_RootCatchesAll(req) ==
    IF req.method = "GET" /\ req.path = <<"health">>
    THEN [res |-> ServerResponse(200, TRUE,
                     {"status", "timestamp", "uptime", "environment", "message"}),
          via |-> "/health"]
    ELSE IF req.method = "GET" /\ req.path = <<"api", "health">>
    THEN [res |-> ServerResponse(200, TRUE, {"status", "timestamp", "service", "version"}),
          via |-> "/api/health"]
    ELSE [res |-> ServerResponse(200, TRUE,
                     {"message", "version", "environment", "endpoints"}),
          via |-> "/"]

\* the routes and the 404 handler: [res, via]
Route(req) ==
    IF req.method = "GET" /\ req.path = <<"health">>
    THEN [res |-> ServerResponse(200, TRUE,
                     {"status", "timestamp", "uptime", "environment", "message"}),
          via |-> "/health"]
    ELSE IF req.method = "GET" /\ req.path = <<"api", "health">>
    THEN [res |-> ServerResponse(200, TRUE, {"status", "timestamp", "service", "version"}),
          via |-> "/api/health"]
    ELSE IF req.method = "GET" /\ req.path = <<>>
    THEN [res |-> ServerResponse(200, TRUE,
                     {"message", "version", "environment", "endpoints"}),
          via |-> "/"]
    ELSE [res |-> ServerResponse(404, TRUE, {"status", "message", "path", "method"}),
          via |-> "404"]

\* one request through the chain: the limiter on /api/, the body parser, the
\* routes, the 404 handler; an error goes to the global error handler
ServerRequest(req) ==
    /\ sPc = "idle"
    /\ sPc' = "done"
    /\ sReq' = req
    /\ sSent' = sSent + 1
    /\ sHits' = IF UnderApi(req.path) THEN sHits + 1 ELSE sHits
    /\ IF UnderApi(req.path) /\ ApiLimitExceeded(sHits + 1)
       THEN /\ sRes' = ServerResponse(429, FALSE, {})
            /\ sVia' = "limiter"
       ELSE IF BodyParserError(req.body).statusCode # 0
       THEN /\ sRes' = ErrorResponse(BodyParserError(req.body), nodeEnv)
            /\ sVia' = "error handler"
       ELSE /\ sRes' = Route(req).res
            /\ sVia' = Route(req).via
    /\ UNCHANGED <<envVars, controllerVars, authVars, limiterVars, routerVars, listVars, adminVars, clientVars>>

\* the request is over
ServerNextRequest ==
    /\ sPc = "done"
    /\ sPc' = "idle"
    /\ sReq' = NoRequest
    /\ sRes' = NoServerResponse
    /\ sSent' = 0
    /\ sVia' = "-"
    /\ UNCHANGED <<sHits, envVars, controllerVars, authVars, limiterVars, routerVars, listVars, adminVars, clientVars>>

\* windowMs has passed: the general limiter forgets its count
ServerWindowReset ==
    /\ sPc = "idle"
    /\ sHits > 0
    /\ sHits' = 0
    /\ UNCHANGED <<sPc, sReq, sRes, sSent, sVia, envVars, controllerVars, authVars, limiterVars, routerVars, listVars, adminVars, clientVars>>

InitServer ==
    /\ sPc = "idle"
    /\ sReq = NoRequest
    /\ sRes = NoServerResponse
    /\ sSent = 0
    /\ sVia = "-"
    /\ sHits = 0

\* the values of process.env.NODE_ENV ("": not set)
NodeEnvs == {"development", "production", "test", ""}

InitEnv ==
    /\ nodeEnv \in NodeEnvs
    /\ geminiKey \in BOOLEAN
    /\ jwtSecret \in BOOLEAN

InitController ==
    /\ cPc = "idle"
    /\ cBody = [ingredients |-> Undef, cuisineType |-> Undef,
                dietaryRestrictions |-> Undef, servings |-> Undef, cookingTime |-> Undef]
    /\ cRes = NoResponse
    /\ cSent = 0
    /\ cCalls = 0
    /\ cError = NoError

vars == <<backendVars, clientVars>>

Init ==
    /\ InitEnv /\ InitController /\ InitAuth /\ InitRouter /\ InitList
    /\ InitApp /\ InitQueue /\ InitFetch /\ InitServer /\ InitDetail
    /\ InitAdmin

NextController ==
    \/ \E body \in ControllerBodies : GenerateRecipe(body)
    \/ \E recipeText \in {<<>>, <<"r">>} : ProviderResolves(recipeText)
    \/ \E error \in ProviderErrors : ProviderRejects(error)
    \/ ControllerNextRequest

NextAuth ==
    \/ \E header \in Headers : VerifyToken(header)
    \/ AuthNextRequest

\* isAdmin over every req.user
NextAdmin ==
    \/ \E user \in {UserNotSet} \cup {User(role) : role \in Roles} : IsAdmin(user)
    \/ AdminNextRequest

SpecAdmin == Init /\ [][NextAdmin]_vars

\* the generation route under load: two client IPs, every caller, two bodies
NextLimiter ==
    \/ \E ip \in IPs, caller \in Callers, body \in LimiterBodies :
          seen[ip] < MaxSeen /\ PostGenerate(ip, caller, body)
    \/ RouterNextRequest
    \/ WindowReset

\* the generation route over every body shape
NextRouter ==
    \/ \E body \in RouterBodies :
          seen["ip1"] < MaxBurst /\ PostGenerate("ip1", "anonymous", body)
    \/ RouterNextRequest
    \/ WindowReset

\* the listing route over every limit and offset
NextList ==
    \/ \E limit \in QueryValues, offset \in QueryValues : GetRecipes(limit, offset)
    \/ ListNextRequest

\* the frontend
NextApp ==
    \/ FetchRecipes /\ UNCHANGED raceVars
    \/ \E i \in 1..Len(calls), data \in ServerRecipeLists :
          GetRecipesResolves(i, data) /\ UNCHANGED raceVars
    \/ \E i \in 1..Len(calls) : GetRecipesRejects(i) /\ UNCHANGED raceVars
    \/ \E i \in 1..Len(recipes) : HandleSelectRecipe(recipes[i])
    \/ \E i \in 1..Len(calls) : AddToHistoryResolves(i)
    \/ \E i \in 1..Len(calls) : AddToHistoryRejects(i)
    \/ ToggleHistory
    \/ \E i \in 1..Len(calls), data \in ServerHistories : GetRecipeHistoryResolves(i, data)
    \/ \E i \in 1..Len(calls) : GetRecipeHistoryRejects(i)
    \/ \E k \in 1..Len(recipeHistory) : ViewHistoryEntry(k)
    \/ Back
    \/ \E confirmed \in BOOLEAN : HandleDeleteRecipe(confirmed)
    \/ \E i \in 1..Len(calls) : DeleteRecipeResolves(i)
    \/ \E i \in 1..Len(calls) : DeleteRecipeRejects(i)

\* fetchRecipes alone, its calls told apart: the mount effect and Apply Filters
\* clicks in any interleaving with the responses
NextOverlap ==
    \/ fetchCount < MaxFetches /\ FetchRecipes /\ IssueFetch
    \/ \E i \in 1..Len(calls), data \in ServerRecipeLists :
          GetRecipesResolves(i, data) /\ SettleFetch(i, "ok", data)
    \/ \E i \in 1..Len(calls) : GetRecipesRejects(i) /\ SettleFetch(i, "failed", <<>>)

SpecOverlap == Init /\ [][NextOverlap]_vars

\* the request queue: any interleaving of queueRequest calls and settlements
NextQueue ==
    \/ \E fn \in RequestFns : QueueRequest(fn)
    \/ \E i \in 1..Len(drains), result \in {"resolved", "rejected"} : RequestSettles(i, result)
    \/ \E i \in 1..Len(drains) : Resume(i)

SpecController == Init /\ [][NextController]_vars

SpecQueue == Init /\ [][NextQueue]_vars

\* the queue when every request in flight eventually settles and the
\* continuation of an await that has settled is eventually run (it is a
\* microtask of the event loop)
SpecQueueFair ==
    /\ Init /\ [][NextQueue]_vars
    /\ WF_vars(\E i \in 1..Len(drains), result \in {"resolved", "rejected"} :
                  RequestSettles(i, result))
    /\ WF_vars(\E i \in 1..Len(drains) : Resume(i))

\* makeSecureRequest: calls, timers and fetches in any interleaving
NextFetch ==
    \/ \E method \in Methods : MakeSecureRequest(method)
    \/ \E i \in 1..Len(secureCalls) : TimerFires(i)
    \/ \E i \in 1..Len(secureCalls), ok \in BOOLEAN : FetchResolves(i, ok)
    \/ \E i \in 1..Len(secureCalls) : FetchRejects(i)
    \/ \E i \in 1..Len(secureCalls), parsed \in BOOLEAN : JsonSettles(i, parsed)

SpecFetch == Init /\ [][NextFetch]_vars

\* the rating input: any sequence of star clicks and saves
NextDetail ==
    \/ \E entry \in Entries : MountDetail(entry)
    \/ \E entry \in Entries : HistoryEntryChanges(entry)
    \/ \E star \in Stars : dClicks < MaxClicks /\ SetRating(star)
    \/ SaveRating
    \/ UnmountDetail

SpecDetail == Init /\ [][NextDetail]_vars

\* server.js under the requests of one client
NextServer ==
    \/ \E req \in ServerRequests : sHits < MaxServerHits /\ ServerRequest(req)
    \/ ServerNextRequest
    \/ ServerWindowReset

SpecServer == Init /\ [][NextServer]_vars

\* a body that passes generateRecipe's validation and one that does not
PlainBodies ==
    {body \in ControllerBodies :
        /\ body.ingredients \in {Undef, Arr(<<EStr(<<" ", "a">>)>>)}
        /\ body.cuisineType = Undef /\ body.dietaryRestrictions = Undef
        /\ body.servings = Undef /\ body.cookingTime = Undef}

\* the three places that answer with error detail, one request at a time:
\* generateRecipe, the router's POST /generate, and server.js
NextDisclosure ==
    \/ \E body \in PlainBodies : rPc = "idle" /\ sPc = "idle" /\ GenerateRecipe(body)
    \/ \E recipeText \in {<<>>, <<"r">>} : ProviderResolves(recipeText)
    \/ \E error \in ProviderErrors : ProviderRejects(error)
    \/ ControllerNextRequest
    \/ \E caller \in Callers :
          /\ cPc = "idle" /\ sPc = "idle" /\ seen["ip1"] < MaxBurst
          /\ PostGenerateUnparsed("ip1", caller)
    \/ RouterNextRequest
    \/ \E req \in ServerRequests :
          /\ cPc = "idle" /\ rPc = "idle" /\ sHits < MaxBurst
          /\ ServerRequest(req)
    \/ ServerNextRequest

SpecDisclosure == Init /\ [][NextDisclosure]_vars

SpecApp == Init /\ [][NextApp]_vars

SpecList == Init /\ [][NextList]_vars

SpecLimiter == Init /\ [][NextLimiter]_vars

SpecRouter == Init /\ [][NextRouter]_vars

SpecAuth == Init /\ [][NextAuth]_vars

---------------------------------------------------------------------------
(* Claims about generateRecipe, checked under SpecController *)

\* a string of whitespace only (the empty string included)
IsBlank(chars) == \A j \in 1..Len(chars) : chars[j] = " "

\* `ingredients` is missing, not an array, empty, or has a non-string or blank entry
IngredientsRejectable(v) ==
    \/ v.t # "array"
    \/ v.a = <<>>
    \/ \E i \in 1..Len(v.a) : v.a[i].t # "string" \/ IsBlank(v.a[i].s)

\* C1: a request whose `ingredients` is missing, not an array, an empty array, or
\* an array with a non-string or blank entry is answered with 400 and
\* success=false, and the provider is never called for it.
C1_BadIngredientsRejected ==
    (cPc # "idle" /\ IngredientsRejectable(cBody.ingredients))
        => /\ cPc = "done"
           /\ cRes.status = 400
           /\ cRes.success = FALSE
           /\ cCalls = 0

\* C1 witness: a request whose only fault is a whitespace-only ingredient has been
\* answered
C1_Witness ==
    /\ cPc = "done"
    /\ cBody.ingredients = Arr(<<EStr(<<" ", "a">>), EStr(<<" ">>)>>)
    /\ cBody.cuisineType = Str(<<"a">>)
    /\ cBody.servings = Num(2)
    /\ cRes.status = 400

\* the signals the catch block looks at
IsCredentialFailure(error) == Includes(error.message, "API key")
IsQuotaSignal(error) == Includes(error.message, "quota")
IsConnectionFailure(error) == error.code \in {"ECONNREFUSED", "ETIMEDOUT"}

\* C10 as stated: every provider error that is a credential failure is answered
\* 401, every quota signal 429, every connection-level failure 503, and every
\* other error 500.
C10_Original ==
    (cPc = "done" /\ cError # NoError)
        => /\ IsCredentialFailure(cError) => cRes.status = 401
           /\ IsQuotaSignal(cError) => cRes.status = 429
           /\ IsConnectionFailure(cError) => cRes.status = 503
           /\ (~IsCredentialFailure(cError) /\ ~IsQuotaSignal(cError)
                 /\ ~IsConnectionFailure(cError)) => cRes.status = 500

\* C10 amended: the three signals are tested in this order and the first that
\* matches decides: a credential failure is answered 401; a quota signal that is
\* not also a credential failure 429; a connection-level failure that carries
\* neither of the two message signals 503; every other error 500.
C10_FailureMappingInOrder ==
    (cPc = "done" /\ cError # NoError)
        => /\ IsCredentialFailure(cError) => cRes.status = 401
           /\ (IsQuotaSignal(cError) /\ ~IsCredentialFailure(cError)) => cRes.status = 429
           /\ (IsConnectionFailure(cError) /\ ~IsCredentialFailure(cError)
                 /\ ~IsQuotaSignal(cError)) => cRes.status = 503
           /\ (~IsCredentialFailure(cError) /\ ~IsQuotaSignal(cError)
                 /\ ~IsConnectionFailure(cError)) => cRes.status = 500

\* C10 witness: a timed-out provider call with no message signal was answered 503
C10_Witness ==
    /\ cPc = "done"
    /\ cError = [message |-> <<"failed">>, code |-> "ETIMEDOUT"]
    /\ cRes.status = 503

---------------------------------------------------------------------------
(* Claims about verifyToken, checked under SpecAuth *)

\* the header is `<scheme> <token>` with a token that verifies: one well-formed
\* token in the second field, signed with the key in use, not expired
CarriesValidToken(header) ==
    /\ header # NoHeader
    /\ \E i \in 2..Len(header) :
          /\ header[i - 1] = Space
          /\ Cardinality({j \in 1..(i - 1) : header[j] = Space}) = 1
          /\ (i < Len(header) => header[i + 1] = Space)
          /\ header[i].kind = "jwt"
          /\ header[i].key = (IF jwtSecret THEN SignedWithSecret ELSE SignedWithDefault)
          /\ header[i].expired = FALSE

\* C4: next is called if and only if the Authorization header carries a token
\* that verifies; otherwise (missing, malformed, tampered, expired) the response
\* is 401 with success=false, req.user is not set and next is not called.
C4_NextIffTokenVerifies ==
    aPc = "done"
        => IF CarriesValidToken(aHeader)
           THEN aNext = 1 /\ aUser # NoUser /\ aRes = NoResponse
           ELSE aNext = 0 /\ aUser = NoUser /\ aRes.status = 401 /\ aRes.success = FALSE

\* C4 witness: an expired token, correctly signed, has been rejected
C4_Witness ==
    /\ aPc = "done"
    /\ jwtSecret
    /\ aHeader = <<Word("Bearer"), Space, Jwt(SignedWithSecret, TRUE, "admin")>>
    /\ aRes.status = 401
    /\ aNext = 0

---------------------------------------------------------------------------
(* Claims about the generation route's rate limiter, checked under SpecLimiter *)

\* C2: of the requests one client IP sends within one window, the first 10 are
\* passed on to the route handler, and the 11th and every later one is rejected
\* with 429 without reaching the handler, when the caller is not an admin.
C2_CeilingEnforced ==
    (rPc = "done" /\ rCaller # "admin")
        => IF seen[rIp] <= 10
           THEN rLimiter = "passed" /\ rHandled /\ rRes.status # 429
           ELSE rLimiter = "rejected" /\ ~rHandled /\ rRes.status = 429
                /\ rRecipe = NoRecipe

\* C2 witness: the 11th request of an IP in the window, from a non-admin caller,
\* was rejected while the other IP is still under the ceiling
C2_Witness ==
    /\ rPc = "done"
    /\ rIp = "ip1"
    /\ rCaller = "user"
    /\ seen["ip1"] = 11
    /\ seen["ip2"] = 3
    /\ rRes.status = 429

\* C3: a request to the generation route from a caller whose authenticated
\* identity has role 'admin' bypasses the counter: it is never rejected with
\* 429, however many requests its IP has made in the window.
C3_AdminBypassesLimiter ==
    (rPc = "done" /\ rCaller = "admin") => rRes.status # 429

---------------------------------------------------------------------------
(* Claims about the router's handlers, checked under SpecRouter and SpecList *)

\* the value is a number, or a string that reads as one, below 1 or above 20
OutsideOneToTwenty(v) ==
    \/ v.t = "number" /\ (v.n < 1 \/ v.n > 20)
    \/ /\ v.t = "string"
       /\ ~StringToNumber(v.s).nan
       /\ (StringToNumber(v.s).n < 1 \/ StringToNumber(v.s).n > 20)

NonEmptyStringArray(v) ==
    v.t = "array" /\ v.a # <<>> /\ \A i \in 1..Len(v.a) : v.a[i].t = "string"

\* C5: a request to POST /generate with a valid ingredients array whose servings
\* lies outside 1..20 is answered with 400, and no recipe object is built.
C5_ServingsOutsideRangeRejected ==
    (rPc = "done" /\ rHandled /\ NonEmptyStringArray(rBody.ingredients)
      /\ OutsideOneToTwenty(rBody.servings))
        => rRes.status = 400 /\ rRecipe = NoRecipe

\* C5 witness: servings 21 with valid ingredients and preference was answered
C5_Witness ==
    /\ rPc = "done"
    /\ rHandled
    /\ rBody.ingredients = Arr(<<EStr(<<"a">>)>>)
    /\ rBody.servings = Num(21)
    /\ rBody.cookingTimePreference = StrWord("quick")
    /\ rRes.status = 400

\* C9: an accepted request's stub response has estimatedCookingTime 15 for
\* 'quick', 30 for 'medium' or an absent preference, 60 for 'long', and echoes
\* the request's servings (1 when absent); any other preference is answered 400.
C9_StubEchoesRequest ==
    (rPc = "done" /\ rHandled)
        => /\ rRes.status = 200 =>
                /\ rRecipe.estimatedCookingTime =
                      (IF rBody.cookingTimePreference = StrWord("quick") THEN 15
                       ELSE IF rBody.cookingTimePreference \in {StrWord("medium"), Undef} THEN 30
                       ELSE IF rBody.cookingTimePreference = StrWord("long") THEN 60
                       ELSE -1)
                /\ rRecipe.servings = (IF rBody.servings = Undef THEN Num(1) ELSE rBody.servings)
           /\ rBody.cookingTimePreference
                 \notin {Undef, StrWord("quick"), StrWord("medium"), StrWord("long")}
                => rRes.status = 400

\* C9 witness: servings 4 and 'quick' came back as estimatedCookingTime 15,
\* servings 4
C9_Witness ==
    /\ rPc = "done"
    /\ rBody.servings = Num(4)
    /\ rBody.cookingTimePreference = StrWord("quick")
    /\ rRes.status = 200
    /\ rRecipe.estimatedCookingTime = 15
    /\ rRecipe.servings = Num(4)

\* C6: for every `limit` query parameter, the pagination.limit of the response
\* is a number no greater than 100.
C6_LimitAtMost100 ==
    lPc = "done" => ~lRes.limit.nan /\ lRes.limit.n <= 100

\* C7: for every `offset` query parameter, the pagination.offset of the response
\* is non-negative: it is never a number below 0.
C7_OffsetNonNegative ==
    lPc = "done" => (lRes.offset.nan \/ lRes.offset.n >= 0)

---------------------------------------------------------------------------
(* Claims about the frontend, checked under SpecApp *)

\* C8: a successful delete leaves recipeHistory unchanged: every entry that
\* embedded the deleted recipe is still there, with the same snapshot.
C8_DeleteKeepsHistory ==
    [][(\E i \in 1..Len(calls) : DeleteRecipeResolves(i))
          => recipeHistory' = recipeHistory]_vars

\* C8 witness: a delete has succeeded, and the history still holds an entry
\* whose embedded recipe is no longer in `recipes`
C8_Witness ==
    /\ appOp = "deleteRecipe"
    /\ \E k \in 1..Len(recipeHistory) :
          /\ recipeHistory[k].recipe = Recipe(1, "a")
          /\ \A j \in 1..Len(recipes) : recipes[j].id # 1
    /\ recipes = <<Recipe(2, "a")>>

---------------------------------------------------------------------------
\* C11: whenever GEMINI_API_KEY is not configured, a request that passes input
\* validation is answered with HTTP 500, once, and model.generateContent is
\* never called for it.
C11_MissingKeyShortCircuits ==
    (cPc # "idle" /\ ValidateBody(cBody) = 0 /\ ~geminiKey)
        => (cPc = "done" /\ cRes.status = 500 /\ ~cRes.success
            /\ cSent = 1 /\ cCalls = 0)

\* a valid request was answered 500 without a provider call, the key being unset
C11_Witness ==
    /\ cPc = "done" /\ ~geminiKey
    /\ ValidateBody(cBody) = 0
    /\ cRes.status = 500 /\ cCalls = 0

---------------------------------------------------------------------------
\* `servings` is a number greater than 0
IsPositiveNumber(v) == v.t = "number" /\ v.n > 0

\* C17: every request whose `servings` is present and is not a positive number
\* (0, a negative number, a non-number) is answered with HTTP 400 and
\* model.generateContent is not called for it.
C17_NonPositiveServingsRejected ==
    (cPc # "idle" /\ cBody.servings # Undef /\ ~IsPositiveNumber(cBody.servings))
        => (cPc = "done" /\ cRes.status = 400 /\ cCalls = 0)

---------------------------------------------------------------------------
\* C18: every request to POST /generate that reaches the route handler and whose
\* `ingredients` is not a non-empty list of non-blank strings is answered with
\* HTTP 400.
C18_RouterRejectsBadIngredients ==
    (rPc = "done" /\ rHandled /\ IngredientsRejectable(rBody.ingredients))
        => rRes.status = 400

---------------------------------------------------------------------------
(* Claims about the request queue of SecureRecipeAPI, checked under SpecQueue *)

\* C12: the queued requests are started in exactly the order in which they were
\* enqueued: the i-th request invoked is the one the i-th queueRequest call
\* brought, whether that call came before or during a drain.
C12_StartedInEnqueueOrder == \A i \in 1..Len(started) : started[i] = i

\* three requests were started in order while a fourth, enqueued during the
\* drain, waits
C12_Witness ==
    /\ started = <<1, 2, 3>>
    /\ Len(requestQueue) = 1 /\ requestQueue[1].ticket = 4
    /\ isProcessing

\* C13: at most one started request has not settled yet, and there is never more
\* than one executeQueue invocation inside its loop.
C13_AtMostOneInFlight ==
    /\ Len(started) - Len(settled) \in {0, 1}
    /\ Len(drains) <= 1

\* a queueRequest call came while a request was in flight and only joined the queue
C13_Witness ==
    /\ Len(drains) = 1 /\ drains[1].pc = "awaiting"
    /\ Len(requestQueue) = 2
    /\ Len(started) - Len(settled) = 1

\* the ordinal belongs to a request that has been invoked
IsStarted(k) == \E i \in 1..Len(started) : started[i] = k

\* C14: a request that rejects or throws does not halt the drain: whenever no
\* executeQueue invocation is left running, the queue is empty, every enqueued
\* request has been started, and isProcessing is false again.
C14_FailureDoesNotHaltDrain ==
    (drains = <<>>) =>
        /\ ~isProcessing
        /\ requestQueue = <<>>
        /\ \A k \in 1..Len(enqueued) : IsStarted(k)

\* the first request rejected, the ones behind it ran, and the drain has ended
C14_Witness ==
    /\ Len(enqueued) >= 3
    /\ settled # <<>> /\ settled[1] = [ticket |-> 1, result |-> "rejected"]
    /\ drains = <<>> /\ ~isProcessing
    /\ IsStarted(2) /\ IsStarted(3)

\* how often the request with this ordinal has been invoked
Invocations(k) == Cardinality({i \in 1..Len(started) : started[i] = k})

IsWaiting(k) == \E i \in 1..Len(requestQueue) : requestQueue[i].ticket = k

\* C15: each enqueued request function is invoked exactly once: at every moment
\* it either still waits in the queue, not yet invoked, or has been invoked
\* once; never twice, never again after a failure, and an item equal to another
\* one is not dropped.
C15_InvokedExactlyOnce ==
    \A k \in 1..Len(enqueued) :
        /\ Invocations(k) <= 1
        /\ IsWaiting(k) <=> Invocations(k) = 0

\* the same function was enqueued twice in a row, the first call failed, and at
\* the end of the drain each of the two had run once
C15_Witness ==
    /\ Len(enqueued) >= 2 /\ enqueued[1] = enqueued[2]
    /\ Len(requestQueue) = 0 /\ drains = <<>>
    /\ settled[1] = [ticket |-> 1, result |-> "rejected"]
    /\ Invocations(1) = 1 /\ Invocations(2) = 1

---------------------------------------------------------------------------
\* C16: for every call of makeSecureRequest, if the timer fires before the fetch
\* settles the call rejects with 'Request timeout'; if the fetch resolves or
\* fails for another reason first, the timer is cancelled, never fires, and the
\* call does not reject with 'Request timeout'.
C16_TimeoutIffTimerWonRace ==
    \A i \in 1..Len(secureCalls) :
        LET c == secureCalls[i]
        IN  /\ (c.timer = "fired" /\ c.pc = "done") => c.outcome = "Request timeout"
            /\ c.timer = "fired" => c.fetched \in {"pending", "AbortError"}
            /\ c.fetched \in {"response", "TypeError"}
                  => (c.timer = "cleared" /\ c.outcome # "Request timeout")

\* one call timed out while another, sent at the same time, got its value
C16_Witness ==
    /\ Len(secureCalls) = 2
    /\ secureCalls[1].pc = "done" /\ secureCalls[1].timer = "fired"
    /\ secureCalls[1].outcome = "Request timeout"
    /\ secureCalls[2].pc = "done" /\ secureCalls[2].timer = "cleared"
    /\ secureCalls[2].outcome = "value"

---------------------------------------------------------------------------
(* Claims about server.js and about error responses *)

\* a response that carries the underlying error: the stack in the global error
\* handler's body, error.message in the `error` field of a generation handler
CarriesErrorDetail ==
    \/ sPc = "done" /\ "stack" \in sRes.keys
    \/ cPc = "done" /\ cRes.detail
    \/ rPc = "done" /\ rRes.detail

\* C19: a response carries the underlying error detail only when the runtime
\* environment is not production: with NODE_ENV 'production' neither the global
\* error handler nor a generation handler sends it.
C19_DetailOnlyOutsideProduction == CarriesErrorDetail => nodeEnv # "production"

\* with NODE_ENV not set, the global error handler answered a body that does not
\* parse and sent the stack
C19_Witness ==
    /\ nodeEnv = ""
    /\ sPc = "done" /\ sVia = "error handler" /\ sRes.status = 400
    /\ "stack" \in sRes.keys

\* C20: every JSON response of the backend has the envelope shape: a `success`
\* flag together with a `data` payload or a `message`.
C20_EveryJsonResponseHasEnvelope ==
    (sPc = "done" /\ sRes.json)
        => ("success" \in sRes.keys /\ ("data" \in sRes.keys \/ "message" \in sRes.keys))

---------------------------------------------------------------------------
\* C21: every rating the frontend passes to rateRecipe is an integer between 1
\* and 5, for every sequence of star clicks including none.
C21_SubmittedRatingInRange ==
    dSubmitted # NoSubmission => dSubmitted \in 1..5

---------------------------------------------------------------------------
\* req.user is set and its role is the string 'admin'
IsAdminIdentity(user) ==
    user.set /\ user.role.t = "string" /\ user.role.s = <<"admin">>

\* C22: isAdmin calls next, once and without sending a response, if and only if
\* req.user is set and its role is exactly 'admin'; in every other case it
\* answers 403 with success=false and does not call next.
C22_NextIffAdmin ==
    gPc = "done" =>
        IF IsAdminIdentity(gUser)
        THEN gNext = 1 /\ gRes = NoResponse
        ELSE gNext = 0 /\ gRes.status = 403 /\ ~gRes.success

\* an identity whose role differs from 'admin' only by case was answered 403
C22_Witness ==
    /\ gPc = "done" /\ gUser = User(Str(<<"Admin">>))
    /\ gRes.status = 403 /\ gNext = 0

---------------------------------------------------------------------------
\* C23: every request that reaches the generation handler has passed the rate
\* limiter and then the auth gate: no request sent without a valid token
\* reaches the handler.
C23_HandlerOnlyAfterLimiterAndAuth ==
    (rPc = "done" /\ rHandled) => (rLimiter = "passed" /\ rCaller # "anonymous")

---------------------------------------------------------------------------
\* C24: generateRecipe sends exactly one response on every path and calls the
\* provider at most once per request: while the provider call is awaited
\* nothing has been sent and one call has been made; once the handler is done
\* exactly one response has been sent, after at most one call.
C24_ExactlyOneResponse ==
    /\ cPc = "awaiting" => (cSent = 0 /\ cCalls = 1)
    /\ cPc = "done" => (cSent = 1 /\ cRes # NoResponse /\ cCalls <= 1)

\* the provider failed with a connection error and the request was answered
\* once, with 503, after the single call
C24_Witness ==
    /\ cPc = "done" /\ cError.code = "ECONNREFUSED"
    /\ cRes.status = 503 /\ cSent = 1 /\ cCalls = 1

---------------------------------------------------------------------------
\* C25: provided every queued request eventually settles, whenever a request is
\* waiting or a drain is running, the queue eventually is empty with
\* isProcessing false and every enqueued request started: no item is stranded.
C25_QueueEventuallyDrains ==
    (requestQueue # <<>> \/ isProcessing)
        ~> (requestQueue = <<>> /\ ~isProcessing /\ Len(started) = Len(enqueued))

\* a request was enqueued while the only item of the drain is still in flight
C25_Witness ==
    /\ isProcessing
    /\ Len(drains) = 1 /\ drains[1].pc = "awaiting" /\ drains[1].request.ticket = 1
    /\ Len(requestQueue) = 1 /\ requestQueue[1].ticket = 2

---------------------------------------------------------------------------
\* a fetchRecipes call is in flight
FetchInFlight == \E i \in 1..Len(calls) : calls[i].op = "getRecipes"

\* C27: `loading` is true in every state in which at least one fetchRecipes call
\* is in flight and false in every state in which none is.
C27_LoadingIffFetchInFlight == loading <=> FetchInFlight

\* C28: handleDeleteRecipe leaves `recipes` and `selectedRecipe` unchanged when
\* the user declines the confirmation (and then issues no delete call), while
\* the call is in flight, and when the call fails; only the success of the call
\* removes the recipe from `recipes` and clears `selectedRecipe`.
C28_DeleteOnlyAfterSuccess ==
    [][/\ HandleDeleteRecipe(FALSE)
            => (recipes' = recipes /\ selectedRecipe' = selectedRecipe /\ calls' = calls)
       /\ HandleDeleteRecipe(TRUE)
            => (recipes' = recipes /\ selectedRecipe' = selectedRecipe)
       /\ (\E i \in 1..Len(calls) : DeleteRecipeRejects(i))
            => (recipes' = recipes /\ selectedRecipe' = selectedRecipe)
       /\ \A i \in 1..Len(calls) :
             DeleteRecipeResolves(i)
                => /\ recipes' = SelectSeq(recipes, LAMBDA r : r.id # calls[i].id)
                   /\ selectedRecipe' = NoSelection]_vars

\* after a declined or failed delete the recipe is still selected and listed
C28_Witness ==
    /\ appOp = "handleDeleteRecipe" /\ calls = <<>>
    /\ selectedRecipe = Recipe(1, "b")
    /\ recipes = <<Recipe(1, "b")>>

---------------------------------------------------------------------------
\* C26: when fetchRecipes calls overlap, then once all of them have completed
\* `recipes` holds the response of the call that was issued last (if that call
\* succeeded), whatever the order in which the responses arrived.
C26_LastIssuedWins ==
    (/\ fetchCount >= 2
     /\ \A k \in 1..fetchCount : fetchData[k].status # "pending"
     /\ fetchData[fetchCount].status = "ok")
        => recipes = fetchData[fetchCount].data

---------------------------------------------------------------------------
\* C29: verifyToken calls next() only for a token signed with the secret
\* configured in JWT_SECRET; where JWT_SECRET is not configured no token is
\* accepted and every request is answered 401.
C29_AcceptsOnlyConfiguredSecret ==
    aPc = "done" =>
        /\ aNext = 1 => (jwtSecret /\ BearerToken(aHeader)[1].key = SignedWithSecret)
        /\ ~jwtSecret => (aNext = 0 /\ aRes.status = 401)

---------------------------------------------------------------------------
\* the request is one of GET /, GET /health, GET /api/health
MatchesDefinedRoute(req) ==
    req.method = "GET" /\ req.path \in {<<>>, <<"health">>, <<"api", "health">>}

\* the response is the 404 handler's 'Route not found' body
IsRouteNotFound(res) ==
    res.status = 404 /\ res.json /\ res.keys = {"status", "message", "path", "method"}

\* one request went through the chain in this step
ChainServes == sPc = "idle" /\ sPc' = "done"

\* exactly one response; a request under /api/ is counted, /health is not
OneResponseAndCount ==
    /\ sSent' = 1
    /\ (sReq'.path # <<>> /\ Head(sReq'.path) = "api") => sHits' = sHits + 1
    /\ sReq'.path = <<"health">> => sHits' = sHits

=============================================================================
